---- MODULE Spec2Model ----
(***************************************************************************)
(* Fragrance Collection Organizer: the storage layer (DatabaseManager),    *)
(* the record model (Fragrance) and the collection manager                 *)
(* (FragranceCollectionManager).                                           *)
(*                                                                         *)
(* Representation of values                                                *)
(*   text            a tuple of character codes, "Dior" = <<68,105,111,114>>*)
(*   seasonal rating an integer number of hundredths, 4.6 = 460            *)
(*   size_oz         an integer number of tenths of an ounce, 3.4 = 34     *)
(*   size_ml         an integer number of tenths of a millilitre           *)
(*   SQLite booleans the integers 0 and 1; Python booleans TRUE and FALSE  *)
(*   a dict          a function whose DOMAIN is the set of keys present    *)
(*   a file          whether it exists and its lines; a line of a CSV file  *)
(*                   is the tuple of its cells                              *)
(***************************************************************************)
EXTENDS Integers, Sequences, FiniteSets, TLC

VARIABLES
    table,          \* rows of the fragrances table (committed state)
    seq,            \* sqlite_sequence of the AUTOINCREMENT key: highest id ever assigned
    now,            \* the value CURRENT_TIMESTAMP yields
    fragrances,     \* FragranceCollectionManager._fragrances
    filtered,       \* FragranceCollectionManager._filtered_fragrances
    search_term,    \* FragranceCollectionManager._search_term
    filters,        \* FragranceCollectionManager._filters
    sort_field,     \* FragranceCollectionManager._sort_field
    sort_order,     \* FragranceCollectionManager._sort_order
    draft,          \* a Fragrance object built by the caller (its _data dict)
    csvfile,        \* the file at the path exports are written to
    lastOp          \* observation of the last completed operation

vars == <<table, seq, now, fragrances, filtered, search_term, filters,
          sort_field, sort_order, draft, csvfile, lastOp>>

mgrVars == <<fragrances, filtered, search_term, filters, sort_field, sort_order>>

----------------------------------------------------------------------------
(* Bounds of the model *)

MaxId == 2
MaxIdValues == 2
MaxIdStore == 2
MaxIdIds == 3
MaxIdSearch == 2
MaxIdFault == 2
MaxIdExport == 2
MaxIdStats == 2
MaxIdEdit == 2
MaxIdView == 2
MaxIdFavorites == 3
MaxIdToggle == 2
MaxTime == 1

----------------------------------------------------------------------------
(* Text values used as inputs *)

Empty == <<>>
Creed == <<67, 114, 101, 101, 100>>
Aventus == <<65, 118, 101, 110, 116, 117, 115>>
Dior == <<68, 105, 111, 114>>
dior == <<100, 105, 111, 114>>
Sauvage == <<83, 97, 117, 118, 97, 103, 101>>
Oud == <<79, 117, 100>>
RoseOud == <<82, 111, 115, 101, 44, 32, 79, 117, 100>>
Rose == <<82, 111, 115, 101>>
Vanilla == <<86, 97, 110, 105, 108, 108, 97>>
OudVanilla == Oud \o <<44, 32>> \o Vanilla
Winter == <<87, 105, 110, 116, 101, 114>>
Summer == <<83, 117, 109, 109, 101, 114>>

----------------------------------------------------------------------------
(* Python and SQLite primitives *)

\* dict.get(key, default)
Get(d, k, default) == IF k \in DOMAIN d THEN d[k] ELSE default

\* Python 3 round(): nearest integer to n/d (d > 0), ties to the even one
Round(n, d) ==
    LET q == n \div d
        r == n % d
    IN  IF 2 * r < d THEN q
        ELSE IF 2 * r > d THEN q + 1
        ELSE IF q % 2 = 0 THEN q ELSE q + 1

Min(a, b) == IF a < b THEN a ELSE b
Max(a, b) == IF a > b THEN a ELSE b

\* str.lower() and the case folding of LIKE, on ASCII
LowerChar(c) == IF c >= 65 /\ c <= 90 THEN c + 32 ELSE c
Lower(s) == [i \in 1..Len(s) |-> LowerChar(s[i])]

\* memcmp order of the BINARY collation: a < b
TextLess(a, b) ==
    \E k \in 1..(Len(b)) :
        /\ \A i \in 1..(k - 1) : i <= Len(a) /\ a[i] = b[i]
        /\ k - 1 <= Len(a)
        /\ (k > Len(a) \/ a[k] < b[k])

\* s LIKE p: % matches any run of characters, _ any one character, any
\* other character itself without regard to ASCII case; there is no escape
RECURSIVE LikeMatch(_, _)
LikeMatch(s, p) ==
    IF p = <<>> THEN s = <<>>
    ELSE IF Head(p) = 37
         THEN \E k \in 0..Len(s) : LikeMatch(SubSeq(s, k + 1, Len(s)), Tail(p))
         ELSE /\ s # <<>>
              /\ (Head(p) = 95 \/ LowerChar(Head(s)) = LowerChar(Head(p)))
              /\ LikeMatch(Tail(s), Tail(p))

\* column LIKE '%pat%', pat bound as it came from the caller
Like(s, pat) == LikeMatch(s, <<37>> \o pat \o <<37>>)

\* the permutations of a finite set, as sequences
RECURSIVE Perms(_)
Perms(S) ==
    IF S = {} THEN {<<>>}
    ELSE UNION {{Append(p, x) : p \in Perms(S \ {x})} : x \in S}

----------------------------------------------------------------------------
(* Storage layer: DatabaseManager *)

\* ids of the rows of a table
Ids(tbl) == {r.id : r \in tbl}

\* truthiness test "1 if x else 0" applied to a Python boolean
Flag(b) == IF b THEN 1 ELSE 0

\* oz -> ml: round(size_oz * 29.5735, 1), on tenths
OzToMlFromCaller(size_oz, data) == Get(data, "size_ml", 0)
OzToMl(size_oz, data) == Round(size_oz * 295735, 10000)

\* the value bound to a seasonal rating column
RatingParam(data, key) == Get(data, key, 300)

\* the value bound to the longevity and sillage columns
PerformanceParam(data, key) == Get(data, key, 3)

\* the column values that add_fragrance and update_fragrance bind from the dict
BoundValues(data) ==
    LET size_oz == Get(data, "size_oz", 0)
    IN  [house |-> Get(data, "house", Empty),
         name |-> Get(data, "name", Empty),
         size_oz |-> size_oz,
         size_ml |-> OzToMl(size_oz, data),
         concentration |-> Get(data, "concentration", Empty),
         top_notes |-> Get(data, "top_notes", Empty),
         middle_notes |-> Get(data, "middle_notes", Empty),
         base_notes |-> Get(data, "base_notes", Empty),
         winter_rating |-> RatingParam(data, "winter_rating"),
         spring_rating |-> RatingParam(data, "spring_rating"),
         summer_rating |-> RatingParam(data, "summer_rating"),
         fall_rating |-> RatingParam(data, "fall_rating"),
         longevity |-> PerformanceParam(data, "longevity"),
         sillage |-> PerformanceParam(data, "sillage"),
         is_clone |-> Flag(Get(data, "is_clone", FALSE)),
         original_fragrance |-> Get(data, "original_fragrance", Empty),
         is_favorite |-> Flag(Get(data, "is_favorite", FALSE))]

\* a row: the bound values with the key and the timestamps
Row(id, v, created_at, updated_at) ==
    [id |-> id, house |-> v.house, name |-> v.name,
     size_oz |-> v.size_oz, size_ml |-> v.size_ml,
     concentration |-> v.concentration, top_notes |-> v.top_notes,
     middle_notes |-> v.middle_notes, base_notes |-> v.base_notes,
     winter_rating |-> v.winter_rating, spring_rating |-> v.spring_rating,
     summer_rating |-> v.summer_rating, fall_rating |-> v.fall_rating,
     longevity |-> v.longevity, sillage |-> v.sillage,
     is_clone |-> v.is_clone, original_fragrance |-> v.original_fragrance,
     is_favorite |-> v.is_favorite,
     created_at |-> created_at, updated_at |-> updated_at]

\* INTEGER PRIMARY KEY AUTOINCREMENT: one more than the largest key ever used
NextIdByCount(tbl, s) == Cardinality(tbl) + 1
NextIdAfterLargestStored(tbl, s) ==
    IF tbl = {} THEN 1 ELSE (CHOOSE i \in Ids(tbl) : \A j \in Ids(tbl) : j <= i) + 1
NextId(tbl, s) == s + 1

\* cursor.rowcount > 0
Success(rowcount) == rowcount > 0

\* add_fragrance: INSERT, lastrowid, commit
add_fragrance(tbl, s, t, data) ==
    LET fragrance_id == NextId(tbl, s)
    IN  [table |-> tbl \cup {Row(fragrance_id, BoundValues(data), t, t)},
         seq |-> Max(s, fragrance_id),
         result |-> fragrance_id]

\* the rows UPDATE ... WHERE id = ? leaves for the one row r
UpdateRowNoWhere(r, fragrance_id, data, t) ==
    Row(r.id, BoundValues(data), r.created_at, t)
UpdateRowMerge(r, fragrance_id, data, t) ==
    IF r.id = fragrance_id
    THEN Row(r.id,
             BoundValues([k \in (DOMAIN data) \cup (DOMAIN r) |->
                             IF k \in DOMAIN data THEN data[k]
                             ELSE IF k \in {"is_clone", "is_favorite"} THEN r[k] = 1
                             ELSE r[k]]),
             r.created_at, t)
    ELSE r
UpdateRowAsNew(r, fragrance_id, data, t) ==
    IF r.id = fragrance_id
    THEN Row(r.id, BoundValues(data), t, t)
    ELSE r
UpdateRow(r, fragrance_id, data, t) ==
    IF r.id = fragrance_id
    THEN Row(r.id, BoundValues(data), r.created_at, t)
    ELSE r

\* update_fragrance: UPDATE, rowcount, commit
update_fragrance(tbl, s, t, fragrance_id, data) ==
    LET rowcount == Cardinality({r \in tbl : r.id = fragrance_id})
    IN  [table |-> {UpdateRow(r, fragrance_id, data, t) : r \in tbl},
         seq |-> s,
         result |-> Success(rowcount)]

\* delete_fragrance: DELETE, rowcount, commit
delete_fragrance(tbl, s, fragrance_id) ==
    LET rowcount == Cardinality({r \in tbl : r.id = fragrance_id})
    IN  [table |-> {r \in tbl : r.id # fragrance_id},
         seq |-> s,
         result |-> Success(rowcount)]

----------------------------------------------------------------------------
(* Storage layer: queries *)

TextCols == {"house", "name", "concentration"}

ValidSortFieldsWithFavorite ==
    {"id", "house", "name", "concentration",
     "winter_rating", "spring_rating", "summer_rating", "fall_rating",
     "longevity", "sillage", "is_favorite"}
valid_sort_fields ==
    {"id", "house", "name", "concentration",
     "winter_rating", "spring_rating", "summer_rating", "fall_rating",
     "longevity", "sillage"}

\* x sorts strictly before y in an ascending ORDER BY on column col
ColLess(col, x, y) == IF col \in TextCols THEN TextLess(x, y) ELSE x < y

\* row a sorts strictly before row b under the ORDER BY terms
OrderLess(a, b, terms) ==
    \E k \in 1..Len(terms) :
        /\ \A i \in 1..(k - 1) : a[terms[i].col] = b[terms[i].col]
        /\ IF terms[k].dir = "DESC"
           THEN ColLess(terms[k].col, b[terms[k].col], a[terms[k].col])
           ELSE ColLess(terms[k].col, a[terms[k].col], b[terms[k].col])

\* the sorter: r is placed before the first row that sorts strictly after it
InsertRow(sorted, r, terms) ==
    LET later == {i \in 1..Len(sorted) : OrderLess(r, sorted[i], terms)}
        pos == IF later = {} THEN Len(sorted) + 1
               ELSE CHOOSE i \in later : \A j \in later : i <= j
    IN  SubSeq(sorted, 1, pos - 1) \o <<r>> \o SubSeq(sorted, pos, Len(sorted))

RECURSIVE SortRows(_, _)
SortRows(scan, terms) ==
    IF scan = <<>> THEN <<>>
    ELSE InsertRow(SortRows(SubSeq(scan, 1, Len(scan) - 1), terms),
                   scan[Len(scan)], terms)

\* the results an ORDER BY query over rows can produce: rows that compare
\* equal on every term come out in any order
OrderBy(rows, terms) == {SortRows(scan, terms) : scan \in Perms(rows)}

\* the ORDER BY clause of get_all_fragrances
ListTermsNoTieBreak(sort_by, order) ==
    <<[col |-> IF sort_by \in valid_sort_fields THEN sort_by ELSE "house",
       dir |-> IF order \in {"ASC", "DESC"} THEN order ELSE "ASC"]>>
ListTermsFallBackToId(sort_by, order) ==
    <<[col |-> IF sort_by \in valid_sort_fields THEN sort_by ELSE "id",
       dir |-> IF order \in {"ASC", "DESC"} THEN order ELSE "ASC"],
      [col |-> "house", dir |-> "ASC"],
      [col |-> "name", dir |-> "ASC"]>>
ListTermsDefaultOrder(sort_by, order) ==
    <<[col |-> IF sort_by \in valid_sort_fields THEN sort_by ELSE "house",
       dir |-> IF sort_by \in valid_sort_fields /\ order = "DESC" THEN "DESC" ELSE "ASC"],
      [col |-> "house", dir |-> "ASC"],
      [col |-> "name", dir |-> "ASC"]>>
ListTerms(sort_by, order) ==
    <<[col |-> IF sort_by \in valid_sort_fields THEN sort_by ELSE "house",
       dir |-> IF order \in {"ASC", "DESC"} THEN order ELSE "ASC"],
      [col |-> "house", dir |-> "ASC"],
      [col |-> "name", dir |-> "ASC"]>>

\* get_all_fragrances(sort_by, sort_order): the possible result lists
get_all_fragrances(tbl, sort_by, order) == OrderBy(tbl, ListTerms(sort_by, order))

\* filters.get(key) is truthy, for a text or list value
Truthy(f, k) == k \in DOMAIN f /\ f[k] # <<>>

\* the WHERE clause search_fragrances builds, evaluated on row r
SearchWhereExactTerm(r, term, f) == r.house = term \/ r.name = term
SearchWhere(r, term, f) ==
    /\ term # Empty => (Like(r.house, term) \/ Like(r.name, term))
    /\ Truthy(f, "notes") =>
          \E n \in 1..Len(f.notes) :
              \/ Like(r.top_notes, f.notes[n])
              \/ Like(r.middle_notes, f.notes[n])
              \/ Like(r.base_notes, f.notes[n])
    /\ Truthy(f, "season") =>
          LET season == Lower(f.season)
          IN  /\ season = Lower(Winter) => r.winter_rating >= 350
              /\ season = <<115, 112, 114, 105, 110, 103>> => r.spring_rating >= 350
              /\ season = Lower(Summer) => r.summer_rating >= 350
              /\ season = <<102, 97, 108, 108>> => r.fall_rating >= 350
    /\ Truthy(f, "house") => r.house = f.house
    /\ ("favorite" \in DOMAIN f /\ f.favorite) => r.is_favorite = 1

\* search_fragrances(search_term, filters): the possible result lists
search_fragrances(tbl, term, f) ==
    OrderBy({r \in tbl : SearchWhere(r, term, f)},
            <<[col |-> "house", dir |-> "ASC"], [col |-> "name", dir |-> "ASC"]>>)

----------------------------------------------------------------------------
(* Storage layer: aggregate queries *)

RECURSIVE SumCol(_, _)
SumCol(rows, col) ==
    IF rows = {} THEN 0
    ELSE LET r == CHOOSE x \in rows : TRUE
         IN  r[col] + SumCol(rows \ {r}, col)

\* AVG(col): the exact quotient sum / count, NULL when count is 0
Avg(rows, col) == [sum |-> SumCol(rows, col), count |-> Cardinality(rows)]

\* get_collection_stats()
get_collection_stats(tbl) ==
    {[total_fragrances |-> Cardinality(tbl),
      house_count |-> Cardinality({r.house : r \in tbl}),
      averages |-> [avg_winter |-> Avg(tbl, "winter_rating"),
                    avg_spring |-> Avg(tbl, "spring_rating"),
                    avg_summer |-> Avg(tbl, "summer_rating"),
                    avg_fall |-> Avg(tbl, "fall_rating"),
                    avg_longevity |-> Avg(tbl, "longevity"),
                    avg_sillage |-> Avg(tbl, "sillage")]]}

\* LIMIT n: a negative n is no limit
SqlLimit(rows, n) == IF n < 0 THEN rows ELSE SubSeq(rows, 1, Min(n, Len(rows)))

\* get_top_houses(limit): GROUP BY house ORDER BY count DESC LIMIT ?, houses
\* with equal counts in any order
get_top_houses(tbl, limit) ==
    LET groups == {<<h, Cardinality({r \in tbl : r.house = h})>> : h \in {r.house : r \in tbl}}
    IN  {SqlLimit(p, limit) :
            p \in {q \in Perms(groups) :
                      \A i \in 1..(Len(q) - 1) : q[i][2] >= q[i + 1][2]}}

\* get_seasonal_averages()
get_seasonal_averages(tbl) ==
    {[winter_avg |-> Avg(tbl, "winter_rating"), spring_avg |-> Avg(tbl, "spring_rating"),
      summer_avg |-> Avg(tbl, "summer_rating"), fall_avg |-> Avg(tbl, "fall_rating")]}

\* the loop body of get_seasonal_preferences on one row
CountFirstBestSeason(c, frag) ==
    LET max_rating == Max(Max(frag.winter_rating, frag.spring_rating),
                          Max(frag.summer_rating, frag.fall_rating))
        best == IF frag.winter_rating = max_rating THEN "winter_count"
                ELSE IF frag.spring_rating = max_rating THEN "spring_count"
                ELSE IF frag.summer_rating = max_rating THEN "summer_count"
                ELSE "fall_count"
    IN  [c EXCEPT ![best] = @ + 1]
CountBestSeasons(c, frag) ==
    LET max_rating == Max(Max(frag.winter_rating, frag.spring_rating),
                          Max(frag.summer_rating, frag.fall_rating))
    IN  [winter_count |-> c.winter_count + Flag(frag.winter_rating = max_rating),
         spring_count |-> c.spring_count + Flag(frag.spring_rating = max_rating),
         summer_count |-> c.summer_count + Flag(frag.summer_rating = max_rating),
         fall_count |-> c.fall_count + Flag(frag.fall_rating = max_rating)]

RECURSIVE SeasonalCounts(_)
SeasonalCounts(scan) ==
    IF scan = <<>>
    THEN [winter_count |-> 0, spring_count |-> 0, summer_count |-> 0, fall_count |-> 0]
    ELSE CountBestSeasons(SeasonalCounts(SubSeq(scan, 1, Len(scan) - 1)), scan[Len(scan)])

\* get_seasonal_preferences(), the rows fetched in any order
get_seasonal_preferences(tbl) == {SeasonalCounts(scan) : scan \in Perms(tbl)}

\* str.split(sep)
RECURSIVE Split(_, _)
Split(s, sep) ==
    LET at == {i \in 1..Len(s) : s[i] = sep}
    IN  IF at = {} THEN <<s>>
        ELSE LET k == CHOOSE i \in at : \A j \in at : i <= j
             IN  <<SubSeq(s, 1, k - 1)>> \o Split(SubSeq(s, k + 1, Len(s)), sep)

\* str.strip(): ASCII whitespace removed at both ends
Whitespace == {9, 10, 11, 12, 13, 28, 29, 30, 31, 32}
StripNothing(s) == s
Strip(s) ==
    LET keep == {i \in 1..Len(s) : s[i] \notin Whitespace}
    IN  IF keep = {} THEN <<>>
        ELSE SubSeq(s, CHOOSE i \in keep : \A j \in keep : i <= j,
                       CHOOSE i \in keep : \A j \in keep : i >= j)

\* note_counts[note] = note_counts.get(note, 0) + 1, on a dict that keeps the
\* order in which its keys were inserted
CountNote(counts, note) ==
    IF \E i \in 1..Len(counts) : counts[i][1] = note
    THEN [i \in 1..Len(counts) |->
             IF counts[i][1] = note THEN <<note, counts[i][2] + 1>> ELSE counts[i]]
    ELSE Append(counts, <<note, 1>>)

RECURSIVE CountNotes(_, _)
CountNotes(counts, notes) ==
    IF notes = <<>> THEN counts
    ELSE CountNotes(IF Head(notes) # <<>> THEN CountNote(counts, Head(notes)) ELSE counts,
                    Tail(notes))

\* one note field of one row
CountField(counts, field) ==
    IF Strip(field) # <<>>
    THEN LET parts == Split(field, 44)
         IN  CountNotes(counts, [i \in 1..Len(parts) |-> Strip(parts[i])])
    ELSE counts

RECURSIVE CountScan(_)
CountScan(scan) ==
    IF scan = <<>> THEN <<>>
    ELSE LET frag == scan[Len(scan)]
             c0 == CountScan(SubSeq(scan, 1, Len(scan) - 1))
         IN  CountField(CountField(CountField(c0, frag.top_notes), frag.middle_notes),
                        frag.base_notes)

\* sorted(items, key=count, reverse=True): stable, equal counts keep their order
RECURSIVE SortedByCount(_)
SortedByCount(items) ==
    IF items = <<>> THEN <<>>
    ELSE LET done == SortedByCount(SubSeq(items, 1, Len(items) - 1))
             x == items[Len(items)]
             lower == {i \in 1..Len(done) : done[i][2] < x[2]}
             pos == IF lower = {} THEN Len(done) + 1
                    ELSE CHOOSE i \in lower : \A j \in lower : i <= j
         IN  SubSeq(done, 1, pos - 1) \o <<x>> \o SubSeq(done, pos, Len(done))

\* items[:limit]
Slice(items, limit) ==
    IF limit >= 0 THEN SubSeq(items, 1, Min(limit, Len(items)))
    ELSE SubSeq(items, 1, Max(0, Len(items) + limit))

\* the counting common to get_top_notes and get_top_notes_from_favorites, the
\* rows fetched in any order
TopNotes(rows, limit) ==
    {Slice(SortedByCount(CountScan(scan)), limit) : scan \in Perms(rows)}

\* get_top_notes(limit)
get_top_notes(tbl, limit) == TopNotes(tbl, limit)

\* get_top_notes_from_favorites(limit)
get_top_notes_from_favorites(tbl, limit) ==
    TopNotes({r \in tbl : r.is_favorite = 1}, limit)

----------------------------------------------------------------------------
(* Record model: Fragrance *)

\* Fragrance(): the _data dict after the defaults are filled in
DefaultFragrance ==
    [id |-> 0, house |-> Empty, name |-> Empty, size_oz |-> 0, size_ml |-> 0,
     concentration |-> Empty, top_notes |-> Empty, middle_notes |-> Empty,
     base_notes |-> Empty, winter_rating |-> 300, spring_rating |-> 300,
     summer_rating |-> 300, fall_rating |-> 300, longevity |-> 3, sillage |-> 3,
     is_clone |-> FALSE, original_fragrance |-> Empty, is_favorite |-> FALSE]

\* Fragrance.from_db_row: the row with its 0/1 columns turned into booleans
from_db_row(row) ==
    [row EXCEPT !.is_clone = (row.is_clone # 0), !.is_favorite = (row.is_favorite # 0)]

FromRows(rows) == [i \in 1..Len(rows) |-> from_db_row(rows[i])]

\* set_winter_rating .. set_fall_rating: clamp to [1.0, 5.0], round to 0.25
Quantize(rating) == Round(Max(100, Min(500, rating)) * 4, 100) * 25

\* set_longevity, set_sillage: clamp to 1..5
Clamp15(x) == Max(1, Min(5, x))

\* Fragrance.to_dict
ToDictInRange(f) ==
    [house |-> f.house, name |-> f.name, size_oz |-> f.size_oz, size_ml |-> f.size_ml,
     concentration |-> f.concentration, top_notes |-> f.top_notes,
     middle_notes |-> f.middle_notes, base_notes |-> f.base_notes,
     winter_rating |-> Quantize(f.winter_rating), spring_rating |-> Quantize(f.spring_rating),
     summer_rating |-> Quantize(f.summer_rating), fall_rating |-> Quantize(f.fall_rating),
     longevity |-> Clamp15(f.longevity), sillage |-> Clamp15(f.sillage),
     is_clone |-> f.is_clone, original_fragrance |-> f.original_fragrance,
     is_favorite |-> f.is_favorite]
to_dict(f) ==
    [house |-> f.house, name |-> f.name, size_oz |-> f.size_oz, size_ml |-> f.size_ml,
     concentration |-> f.concentration, top_notes |-> f.top_notes,
     middle_notes |-> f.middle_notes, base_notes |-> f.base_notes,
     winter_rating |-> f.winter_rating, spring_rating |-> f.spring_rating,
     summer_rating |-> f.summer_rating, fall_rating |-> f.fall_rating,
     longevity |-> f.longevity, sillage |-> f.sillage, is_clone |-> f.is_clone,
     original_fragrance |-> f.original_fragrance, is_favorite |-> f.is_favorite]

----------------------------------------------------------------------------
(* Export: export_collection_to_csv *)

NoFile == [exists |-> FALSE, lines |-> <<>>]

\* selected_fields left at its default
None == [None |-> TRUE]

\* the selectable columns in the order they are tested: key, label, whether the
\* column is written when the map has no entry for the key
ExportFields ==
    <<[key |-> "house", label |-> "House", default |-> TRUE],
      [key |-> "name", label |-> "Name", default |-> TRUE],
      [key |-> "size_oz", label |-> "Size (oz)", default |-> FALSE],
      [key |-> "size_ml", label |-> "Size (ml)", default |-> FALSE],
      [key |-> "concentration", label |-> "Concentration", default |-> FALSE],
      [key |-> "top_notes", label |-> "Top Notes", default |-> FALSE],
      [key |-> "middle_notes", label |-> "Middle Notes", default |-> FALSE],
      [key |-> "base_notes", label |-> "Base Notes", default |-> FALSE],
      [key |-> "winter_rating", label |-> "Winter Rating", default |-> FALSE],
      [key |-> "spring_rating", label |-> "Spring Rating", default |-> FALSE],
      [key |-> "summer_rating", label |-> "Summer Rating", default |-> FALSE],
      [key |-> "fall_rating", label |-> "Fall Rating", default |-> FALSE],
      [key |-> "longevity", label |-> "Longevity", default |-> FALSE],
      [key |-> "sillage", label |-> "Sillage", default |-> FALSE],
      [key |-> "is_clone", label |-> "Is Clone", default |-> FALSE],
      [key |-> "original_fragrance", label |-> "Original Fragrance", default |-> FALSE],
      [key |-> "is_favorite", label |-> "Is Favorite", default |-> FALSE]>>

\* the columns of the export: those whose selected_fields.get(key, default) holds
ExportColumns(selected_fields) ==
    SelectSeq(ExportFields, LAMBDA e : Get(selected_fields, e.key, e.default))

\* the cell of one column for one Fragrance object
Cell(fragrance, e) ==
    IF e.key \in {"is_clone", "is_favorite"}
    THEN (IF fragrance[e.key] THEN "Yes" ELSE "No")
    ELSE fragrance[e.key]

\* the lines a complete export holds: the header, then one line per record
ExportLines(frs, selected_fields) ==
    LET cols == ExportColumns(selected_fields)
    IN  <<[c \in 1..Len(cols) |-> cols[c].label]>>
        \o [i \in 1..Len(frs) |-> [c \in 1..Len(cols) |-> Cell(frs[i], cols[c])]]

\* not fragrances
NoRecordsIgnored(frs) == FALSE
NoRecords(frs) == frs = <<>>

\* the target after open(filepath, 'w')
OpenForWriting(file) == [exists |-> TRUE, lines |-> <<>>]

\* export_collection_to_csv(fragrances, filepath, selected_fields) on the target
\* file.  fault is what the file system does: "open" makes open() raise,
\* "write" makes a write raise when flushed lines of the export are on disk.
export_collection_to_csv(file, frs, selected_fields, fault, flushed) ==
    IF NoRecords(frs) THEN [result |-> FALSE, file |-> file]
    ELSE IF fault = "open" THEN [result |-> FALSE, file |-> file]
    ELSE IF "None" \in DOMAIN selected_fields
         THEN [result |-> FALSE, file |-> OpenForWriting(file)]
    ELSE LET lines == ExportLines(frs, selected_fields)
         IN  IF fault = "write"
             THEN [result |-> FALSE,
                   file |-> [OpenForWriting(file) EXCEPT
                                !.lines = SubSeq(lines, 1, Min(flushed, Len(lines)))]]
             ELSE [result |-> TRUE,
                   file |-> [OpenForWriting(file) EXCEPT !.lines = lines]]

----------------------------------------------------------------------------
(* Edit dialog: FragranceDialog, as CollectionView._edit_fragrance uses it *)

\* the entries of the concentration combo box, "Eau de Cologne (EdC)" first
ConcentrationItems ==
    <<<<69, 97, 117, 32, 100, 101, 32, 67, 111, 108, 111, 103, 110, 101, 32, 40, 69, 100, 67, 41>>,
      <<69, 97, 117, 32, 100, 101, 32, 84, 111, 105, 108, 101, 116, 116, 101, 32, 40, 69, 100, 84, 41>>,
      <<69, 97, 117, 32, 100, 101, 32, 80, 97, 114, 102, 117, 109, 32, 40, 69, 100, 80, 41>>,
      <<80, 97, 114, 102, 117, 109, 32, 47, 32, 69, 120, 116, 114, 97, 105, 116>>,
      <<69, 108, 105, 120, 105, 114>>,
      <<80, 117, 114, 101, 32, 80, 101, 114, 102, 117, 109, 101>>,
      <<79, 116, 104, 101, 114>>>>

\* s begins with prefix, compared without regard to ASCII case
StartsWith(s, prefix) ==
    /\ Len(prefix) <= Len(s)
    /\ \A i \in 1..Len(prefix) : LowerChar(s[i]) = LowerChar(prefix[i])

\* the combo box after findText(concentration, MatchStartsWith): the first
\* entry that begins with the text, or the entry selected at construction
ConcentrationShown(concentration) ==
    LET hits == {i \in 1..Len(ConcentrationItems) :
                    StartsWith(ConcentrationItems[i], concentration)}
    IN  IF hits = {} THEN ConcentrationItems[2]
        ELSE ConcentrationItems[CHOOSE i \in hits : \A j \in hits : i <= j]

\* RatingSlider.setValue: snapped to steps of 0.25 from 1.0, then kept in range
RatingShown(value) == Max(100, Min(500, Round(value - 100, 25) * 25 + 100))

\* QDoubleSpinBox.setValue with range 0.1 .. 50.0
SizeShown(size_oz) == Max(1, Min(500, size_oz))

\* _load_fragrance_data: what the widgets hold once the record is loaded
load_fragrance_data(fragrance) ==
    [house |-> fragrance.house, name |-> fragrance.name,
     size_oz |-> SizeShown(fragrance.size_oz),
     concentration |-> ConcentrationShown(fragrance.concentration),
     top_notes |-> fragrance.top_notes, middle_notes |-> fragrance.middle_notes,
     base_notes |-> fragrance.base_notes,
     winter_rating |-> RatingShown(fragrance.winter_rating),
     spring_rating |-> RatingShown(fragrance.spring_rating),
     summer_rating |-> RatingShown(fragrance.summer_rating),
     fall_rating |-> RatingShown(fragrance.fall_rating),
     longevity |-> Clamp15(fragrance.longevity), sillage |-> Clamp15(fragrance.sillage),
     is_clone |-> fragrance.is_clone,
     original_fragrance |-> fragrance.original_fragrance]

\* get_fragrance_data: the dict built from the widgets
get_fragrance_data(form) ==
    [form EXCEPT !.original_fragrance = IF form.is_clone THEN @ ELSE Empty]

----------------------------------------------------------------------------
(* Collection manager: FragranceCollectionManager *)

\* the slots connected to DatabaseManager.database_updated
NoSlots == <<>>
database_updated_slots == <<"refresh_collection">>

\* the table a connection opened while database_updated is being emitted
\* reads: the emit follows conn.commit(), so it is the table after the write
VisibleBeforeCommit(before, after) == before
VisibleAtEmit(before, after) == after

\* add_fragrance and delete_fragrance end with database_updated.emit();
\* so does update_fragrance, whatever its rowcount
EmitsIfSuccess(success) == IF success THEN 1 ELSE 0
Emits(success) == 1

\* _apply_filters: the possible filtered views, with the searches issued
ApplyFiltersAlwaysSearch(tbl, frs, term, f) ==
    {[filtered |-> FromRows(res), searches |-> 1] : res \in search_fragrances(tbl, term, f)}
ApplyFiltersInMemory(tbl, frs, term, f) ==
    {[filtered |-> SelectSeq(frs, LAMBDA x : \E r \in tbl : r.id = x.id /\ SearchWhere(r, term, f)),
      searches |-> IF term = Empty /\ DOMAIN f = {} THEN 0 ELSE 1]}
apply_filters(tbl, frs, term, f) ==
    IF term = Empty /\ DOMAIN f = {}
    THEN {[filtered |-> frs, searches |-> 0]}
    ELSE {[filtered |-> FromRows(res), searches |-> 1] :
             res \in search_fragrances(tbl, term, f)}

\* refresh_collection: the possible outcomes against the table tbl
RefreshInDefaultSort(tbl, sf, so, term, f) ==
    UNION {
        {[fragrances |-> FromRows(lst), filtered |-> a.filtered,
          lists |-> 1, searches |-> a.searches, signals |-> 1] :
            a \in apply_filters(tbl, FromRows(lst), term, f)} :
        lst \in get_all_fragrances(tbl, "house", "ASC")}
refresh_collection(tbl, sf, so, term, f) ==
    UNION {
        {[fragrances |-> FromRows(lst), filtered |-> a.filtered,
          lists |-> 1, searches |-> a.searches, signals |-> 1] :
            a \in apply_filters(tbl, FromRows(lst), term, f)} :
        lst \in get_all_fragrances(tbl, sf, so)}

\* the observation of an operation
Op(op, id, data, ok, emits, direct, refreshes, lists, searches, signals) ==
    [op |-> op, id |-> id, data |-> data, ok |-> ok, emits |-> emits, direct |-> direct,
     refreshes |-> refreshes, lists |-> lists, searches |-> searches,
     signals |-> signals]

\* database_updated.emit(), emits times: every connected slot runs each time
Notify(op, id, data, ok, emits, visible) ==
    LET n == emits * Len(database_updated_slots)
    IN  IF n = 0
        THEN /\ UNCHANGED <<fragrances, filtered>>
             /\ lastOp' = Op(op, id, data, ok, emits, 0, 0, 0, 0, 0)
        ELSE \E out \in refresh_collection(visible, sort_field, sort_order,
                                           search_term, filters) :
                /\ fragrances' = out.fragrances
                /\ filtered' = out.filtered
                /\ lastOp' = Op(op, id, data, ok, emits, 0, n, n * out.lists,
                                n * out.searches, n * out.signals)

\* FragranceCollectionManager.add_fragrance -> DatabaseManager.add_fragrance
MgrAdd(data) ==
    LET w == add_fragrance(table, seq, now, data)
    IN  /\ table' = w.table
        /\ seq' = w.seq
        /\ Notify("add", w.result, data, TRUE, Emits(TRUE), VisibleAtEmit(table, w.table))
        /\ UNCHANGED <<now, search_term, filters, sort_field, sort_order, draft, csvfile>>

\* FragranceCollectionManager.update_fragrance -> DatabaseManager.update_fragrance
MgrUpdate(fragrance_id, data) ==
    LET w == update_fragrance(table, seq, now, fragrance_id, data)
    IN  /\ table' = w.table
        /\ seq' = w.seq
        /\ Notify("update", fragrance_id, data, w.result, Emits(w.result),
                  VisibleAtEmit(table, w.table))
        /\ UNCHANGED <<now, search_term, filters, sort_field, sort_order, draft, csvfile>>

\* FragranceCollectionManager.delete_fragrance -> DatabaseManager.delete_fragrance
MgrDelete(fragrance_id) ==
    LET w == delete_fragrance(table, seq, fragrance_id)
    IN  /\ table' = w.table
        /\ seq' = w.seq
        /\ Notify("delete", fragrance_id, <<>>, w.result, Emits(w.result),
                  VisibleAtEmit(table, w.table))
        /\ UNCHANGED <<now, search_term, filters, sort_field, sort_order, draft, csvfile>>

\* refresh_collection called directly (MainWindow._refresh_collection)
MgrRefresh ==
    /\ \E out \in refresh_collection(table, sort_field, sort_order, search_term, filters) :
          /\ fragrances' = out.fragrances
          /\ filtered' = out.filtered
          /\ lastOp' = Op("refresh", 0, <<>>, TRUE, 0, 1, 1, out.lists, out.searches, out.signals)
    /\ UNCHANGED <<table, seq, now, search_term, filters, sort_field, sort_order, draft, csvfile>>

\* set_search_term(term)
SetSearchTermAlways(term) ==
    /\ search_term' = term
    /\ \E a \in apply_filters(table, fragrances, term, filters) :
          /\ filtered' = a.filtered
          /\ lastOp' = Op("set_search_term", 0, term, TRUE, 0, 0, 0, 0, a.searches, 1)
    /\ UNCHANGED <<table, seq, now, fragrances, filters, sort_field, sort_order, draft, csvfile>>
SetSearchTerm(term) ==
    /\ IF search_term # term
       THEN /\ search_term' = term
            /\ \E a \in apply_filters(table, fragrances, term, filters) :
                  /\ filtered' = a.filtered
                  /\ lastOp' = Op("set_search_term", 0, term, TRUE, 0, 0, 0, 0, a.searches, 1)
       ELSE /\ UNCHANGED <<search_term, filtered>>
            /\ lastOp' = Op("set_search_term", 0, term, TRUE, 0, 0, 0, 0, 0, 0)
    /\ UNCHANGED <<table, seq, now, fragrances, filters, sort_field, sort_order, draft, csvfile>>

\* set_filters(filters)
SetFiltersIfChanged(f) ==
    /\ filters' = f
    /\ IF (DOMAIN f = {} /\ DOMAIN filters = {}) \/ (DOMAIN f # {} /\ DOMAIN filters # {})
       THEN /\ UNCHANGED filtered
            /\ lastOp' = Op("set_filters", 0, [filters |-> f, was |-> filters], TRUE,
                            0, 0, 0, 0, 0, 0)
       ELSE \E a \in apply_filters(table, fragrances, search_term, f) :
               /\ filtered' = a.filtered
               /\ lastOp' = Op("set_filters", 0, [filters |-> f, was |-> filters], TRUE,
                               0, 0, 0, 0, a.searches, 1)
    /\ UNCHANGED <<table, seq, now, fragrances, search_term, sort_field, sort_order, draft, csvfile>>
SetFilters(f) ==
    /\ filters' = f
    /\ \E a \in apply_filters(table, fragrances, search_term, f) :
          /\ filtered' = a.filtered
          /\ lastOp' = Op("set_filters", 0, [filters |-> f, was |-> filters], TRUE,
                          0, 0, 0, 0, a.searches, 1)
    /\ UNCHANGED <<table, seq, now, fragrances, search_term, sort_field, sort_order, draft, csvfile>>

\* set_sort(field, order)
SetSort(field, order) ==
    /\ IF sort_field # field \/ sort_order # order
       THEN /\ sort_field' = field
            /\ sort_order' = order
            /\ \E out \in refresh_collection(table, field, order, search_term, filters) :
                  /\ fragrances' = out.fragrances
                  /\ filtered' = out.filtered
                  /\ lastOp' = Op("set_sort", 0, <<field, order>>, TRUE, 0, 1, 1, out.lists,
                                  out.searches, out.signals)
       ELSE /\ UNCHANGED <<sort_field, sort_order, fragrances, filtered>>
            /\ lastOp' = Op("set_sort", 0, <<field, order>>, TRUE, 0, 0, 0, 0, 0, 0)
    /\ UNCHANGED <<table, seq, now, search_term, filters, draft, csvfile>>

\* what a storage query hands to its caller: the rows it read, or, when
\* sqlite3 raises (fails), an empty result if its body catches sqlite3.Error
\* and the exception itself if it does not
guarded_queries ==
    {"get_top_houses", "get_top_notes", "get_seasonal_averages",
     "get_seasonal_preferences", "get_top_notes_from_favorites"}

Fetch(name, results, fails) ==
    IF fails
    THEN {[raised |-> name \notin guarded_queries, value |-> <<>>]}
    ELSE {[raised |-> FALSE, value |-> v] : v \in results}

\* a storage query called by a client
Query(name, args, results, fails) ==
    /\ \E out \in Fetch(name, results, fails) :
          lastOp' = Op(name, 0, [args |-> args, failed |-> fails, result |-> out.value],
                       ~out.raised, 0, 0, 0, 0, 0, 0)
    /\ UNCHANGED <<table, seq, now, mgrVars, draft, csvfile>>

\* DatabaseManager.get_all_fragrances called by a client
DbList(sort_by, order, fails) ==
    Query("get_all_fragrances", <<sort_by, order>>,
          get_all_fragrances(table, sort_by, order), fails)

\* DatabaseManager.search_fragrances called by a client
DbSearch(term, f, fails) ==
    Query("search_fragrances", <<term, f>>, search_fragrances(table, term, f), fails)

\* DatabaseManager.get_collection_stats called by a client
DbStats(fails) ==
    Query("get_collection_stats", <<>>, get_collection_stats(table), fails)

\* DatabaseManager.get_top_houses called by a client
DbTopHouses(limit, fails) ==
    Query("get_top_houses", <<limit>>, get_top_houses(table, limit), fails)

\* DatabaseManager.get_top_notes called by a client
DbTopNotes(limit, fails) ==
    Query("get_top_notes", <<limit>>, get_top_notes(table, limit), fails)

\* DatabaseManager.get_top_notes_from_favorites called by a client
DbTopNotesFromFavorites(limit, fails) ==
    Query("get_top_notes_from_favorites", <<limit>>,
          get_top_notes_from_favorites(table, limit), fails)

\* DatabaseManager.get_seasonal_averages called by a client
DbSeasonalAverages(fails) ==
    Query("get_seasonal_averages", <<>>, get_seasonal_averages(table), fails)

\* DatabaseManager.get_seasonal_preferences called by a client
DbSeasonalPreferences(fails) ==
    Query("get_seasonal_preferences", <<>>, get_seasonal_preferences(table), fails)

\* refresh_collection called directly while the query named by point fails:
\* an exception leaves refresh_collection at the call that raised it
MgrRefreshFault(point) ==
    /\ \E l \in Fetch("get_all_fragrances",
                      get_all_fragrances(table, sort_field, sort_order), point = "list") :
          IF l.raised
          THEN /\ UNCHANGED <<fragrances, filtered>>
               /\ lastOp' = Op("refresh_collection", 0, point, FALSE, 0, 1, 1, 1, 0, 0)
          ELSE /\ fragrances' = FromRows(l.value)
               /\ IF search_term = Empty /\ DOMAIN filters = {}
                  THEN /\ filtered' = fragrances'
                       /\ lastOp' = Op("refresh_collection", 0, point, TRUE, 0, 1, 1, 1, 0, 1)
                  ELSE \E f \in Fetch("search_fragrances",
                                      search_fragrances(table, search_term, filters),
                                      point = "search") :
                          IF f.raised
                          THEN /\ UNCHANGED filtered
                               /\ lastOp' = Op("refresh_collection", 0, point, FALSE,
                                               0, 1, 1, 1, 1, 0)
                          ELSE /\ filtered' = FromRows(f.value)
                               /\ lastOp' = Op("refresh_collection", 0, point, TRUE,
                                               0, 1, 1, 1, 1, 1)
    /\ UNCHANGED <<table, seq, now, search_term, filters, sort_field, sort_order, draft, csvfile>>

\* export_collection_to_csv called with the manager's full view, which is what
\* FilterPanel._export_collection passes, and the target path
ExportCsv(selected_fields, fault, flushed) ==
    LET out == export_collection_to_csv(csvfile, fragrances, selected_fields, fault, flushed)
    IN  /\ csvfile' = out.file
        /\ lastOp' = Op("export", 0,
                        [selected_fields |-> selected_fields, fault |-> fault,
                         records |-> fragrances, before |-> csvfile],
                        out.result, 0, 0, 0, 0, 0, 0)
        /\ UNCHANGED <<table, seq, now, mgrVars, draft>>

\* CollectionView._edit_fragrance: the record is looked up in the full view,
\* loaded into the dialog, changed by the user (typed gives the widgets typed
\* into) and the dialog's dict is passed to update
EditFragrance(fragrance_id, typed) ==
    /\ \E i \in 1..Len(fragrances) : fragrances[i].id = fragrance_id
    /\ LET fragrance == fragrances[CHOOSE i \in 1..Len(fragrances) :
                                       fragrances[i].id = fragrance_id]
           loaded == load_fragrance_data(fragrance)
           form == [k \in DOMAIN loaded |-> IF k \in DOMAIN typed THEN typed[k] ELSE loaded[k]]
       IN  MgrUpdate(fragrance_id, get_fragrance_data(form))

\* CollectionView._toggle_favorite: the record is looked up in the full view
\* and its to_dict, with the new flag, is passed to update
ToggleFavorite(fragrance_id, is_favorite) ==
    /\ \E i \in 1..Len(fragrances) : fragrances[i].id = fragrance_id
    /\ LET fragrance == fragrances[CHOOSE i \in 1..Len(fragrances) :
                                       fragrances[i].id = fragrance_id]
       IN  MgrUpdate(fragrance_id, [to_dict(fragrance) EXCEPT !.is_favorite = is_favorite])

\* the clock behind CURRENT_TIMESTAMP advances
Tick ==
    /\ now < MaxTime
    /\ now' = now + 1
    /\ lastOp' = Op("tick", 0, <<>>, TRUE, 0, 0, 0, 0, 0, 0)
    /\ UNCHANGED <<table, seq, mgrVars, draft, csvfile>>

----------------------------------------------------------------------------
(* The program after start-up: a new database file, the manager constructed *)

Init ==
    /\ table = {}
    /\ seq = 0
    /\ now = 0
    /\ fragrances = <<>>
    /\ filtered = <<>>
    /\ search_term = Empty
    /\ filters = <<>>
    /\ sort_field = "house"
    /\ sort_order = "ASC"
    /\ draft = DefaultFragrance
    /\ csvfile = NoFile
    /\ lastOp = Op("init", 0, <<>>, TRUE, 0, 1, 1, 1, 0, 1)

----------------------------------------------------------------------------
(* Record-model setters, on the caller's Fragrance object *)

SeasonKeys == {"winter_rating", "spring_rating", "summer_rating", "fall_rating"}

\* set_winter_rating, set_spring_rating, set_summer_rating, set_fall_rating
SetRating(key, rating) ==
    /\ draft' = [draft EXCEPT ![key] = Quantize(rating)]
    /\ lastOp' = Op("set_rating", 0, <<key, rating>>, TRUE, 0, 0, 0, 0, 0, 0)
    /\ UNCHANGED <<table, seq, now, mgrVars, csvfile>>

\* set_longevity, set_sillage
SetPerformance(key, x) ==
    /\ draft' = [draft EXCEPT ![key] = Clamp15(x)]
    /\ lastOp' = Op("set_performance", 0, <<key, x>>, TRUE, 0, 0, 0, 0, 0, 0)
    /\ UNCHANGED <<table, seq, now, mgrVars, csvfile>>

\* set_size_oz
SetSizeOz(size_oz) ==
    /\ IF draft.size_oz # size_oz
       THEN draft' = [draft EXCEPT !.size_oz = size_oz,
                                   !.size_ml = Round(size_oz * 295735, 10000)]
       ELSE UNCHANGED draft
    /\ lastOp' = Op("set_size_oz", 0, size_oz, TRUE, 0, 0, 0, 0, 0, 0)
    /\ UNCHANGED <<table, seq, now, mgrVars, csvfile>>

----------------------------------------------------------------------------
(* Inputs *)

\* record dicts handed to add and update by the views
MgrData ==
    {[house |-> Dior, name |-> Sauvage, longevity |-> 5, winter_rating |-> 450,
      top_notes |-> RoseOud, is_favorite |-> TRUE],
     [house |-> Creed, name |-> Aventus, longevity |-> 2, winter_rating |-> 300]}

\* record dicts that tie on the sort field, on the house, or on both
SortData ==
    {[house |-> Dior, name |-> Sauvage, longevity |-> 5],
     [house |-> Creed, name |-> Sauvage, longevity |-> 5],
     [house |-> Dior, name |-> Aventus, longevity |-> 2]}

IdArgs == 1..MaxId

SearchTerms == {Empty, <<100, 105>>}

FilterDicts == {<<>>, [season |-> Winter, notes |-> <<Oud>>]}

Sorts == {<<"house", "ASC">>, <<"longevity", "DESC">>, <<"name", "desc">>}

ViewSorts == {<<"house", "ASC">>, <<"longevity", "DESC">>}

\* search requests: a term in another case, a term that is a LIKE wildcard,
\* every filter key
SearchData ==
    {[house |-> Dior, name |-> Sauvage, winter_rating |-> 450, top_notes |-> RoseOud,
      is_favorite |-> TRUE],
     [house |-> Creed, name |-> Aventus, winter_rating |-> 350, base_notes |-> Oud],
     [house |-> Dior, name |-> Aventus, winter_rating |-> 325]}

QueryTerms == {Empty, <<100, 105>>, <<95>>}

QueryFilters ==
    {<<>>, [season |-> Winter], [notes |-> <<Sauvage, Lower(Oud)>>],
     [house |-> Dior, favorite |-> TRUE], [house |-> dior]}

\* records for the aggregate queries: the two of the top_notes example, the
\* first tied at its best rating in winter and spring; a third with empty
\* tokens, blanks around tokens and a note in another case
StatsData ==
    {[house |-> Dior, name |-> Sauvage, top_notes |-> RoseOud, is_favorite |-> TRUE,
      winter_rating |-> 500, spring_rating |-> 500, summer_rating |-> 300,
      fall_rating |-> 200],
     [house |-> Creed, name |-> Aventus, top_notes |-> OudVanilla, fall_rating |-> 450],
     [house |-> Dior, name |-> Aventus, middle_notes |-> <<32>> \o Oud \o <<32, 44, 44, 32>>,
      base_notes |-> Lower(Oud) \o <<44>> \o Oud, is_favorite |-> TRUE,
      summer_rating |-> 100]}

Limits == {0, 1, 2, 10}

\* record dicts for the two views: favorites and others in both houses; a
\* term every record matches, a filter two of them pass
ViewData ==
    {[house |-> Dior, name |-> Sauvage, longevity |-> 5],
     [house |-> Creed, name |-> Aventus, longevity |-> 2, is_favorite |-> TRUE],
     [house |-> Dior, name |-> Aventus, longevity |-> 3, is_favorite |-> TRUE]}

ViewTerms == {Empty, <<97>>}

ViewFilters == {<<>>, [favorite |-> TRUE]}

FavoriteSorts == {<<"house", "ASC">>, <<"longevity", "DESC">>, <<"is_favorite", "DESC">>}

\* record dicts whose values no widget would give: ratings off the quarter
\* steps and out of range, a clone, a size_ml that is not the conversion
ToggleData ==
    {[house |-> Dior, name |-> Sauvage, size_oz |-> 17, size_ml |-> 999,
      winter_rating |-> 730, spring_rating |-> 50, summer_rating |-> 312,
      fall_rating |-> 500, longevity |-> 9, sillage |-> 0 - 2],
     [house |-> Creed, name |-> Aventus, size_oz |-> 34, concentration |-> Oud,
      top_notes |-> RoseOud, winter_rating |-> 460, is_clone |-> TRUE,
      original_fragrance |-> Aventus, is_favorite |-> TRUE]}

\* what the user types into the edit dialog; partial dicts passed to update
Typed == {[longevity |-> 4], [name |-> Aventus, sillage |-> 4]}

PartialData == {[house |-> Dior, name |-> Aventus, size_oz |-> 17]}

\* field-selection maps: none given, an empty one, one without house and name,
\* one that unchecks House, one that unchecks everything ("Select None")
FieldMaps ==
    {None, <<>>, [size_oz |-> TRUE, is_favorite |-> TRUE, sillage |-> FALSE],
     [house |-> FALSE, name |-> TRUE, longevity |-> TRUE],
     [key \in {ExportFields[i].key : i \in 1..Len(ExportFields)} |-> FALSE]}

Faults == {"none", "open", "write"}

\* sort requests with a field outside the allow-list ("is_favorite" is what
\* FilterPanel._apply_sort sends for "Favorites First")
ListSorts ==
    {<<"house", "ASC">>, <<"is_favorite", "DESC">>, <<"is_favorite", "ASC">>,
     <<"bogus_field", "desc">>}

\* record dicts with sizes, ratings and performance values in and out of range
ValueData ==
    {[house |-> Creed, name |-> Aventus, size_oz |-> 34, winter_rating |-> 460],
     [house |-> Dior, name |-> Sauvage, size_oz |-> 17, size_ml |-> 999,
      winter_rating |-> 730, spring_rating |-> 50, summer_rating |-> 312,
      fall_rating |-> 500, longevity |-> 9, sillage |-> 0 - 2],
     [house |-> dior, name |-> Sauvage, size_oz |-> 10, size_ml |-> 0,
      longevity |-> 1, sillage |-> 5],
     [name |-> Aventus]}

\* record dicts of a favorite and of a plain record
StoreData ==
    {[house |-> Dior, name |-> Sauvage, is_favorite |-> TRUE],
     [house |-> Creed, name |-> Aventus, size_oz |-> 34]}

RatingInputs == {50, 460, 730}
PerformanceInputs == {0 - 2, 4, 9}
SizeInputs == {0, 17, 34}

----------------------------------------------------------------------------
(* Specification of the collection manager over the storage layer *)

Add == \E d \in MgrData : seq < MaxId /\ MgrAdd(d)
Update == \E i \in IdArgs, d \in MgrData : MgrUpdate(i, d)
Delete == \E i \in IdArgs : MgrDelete(i)
Refresh == MgrRefresh
Search == \E t \in SearchTerms : SetSearchTerm(t)
Filter == \E f \in FilterDicts : SetFilters(f)
Sort == \E s \in ViewSorts : SetSort(s[1], s[2])

Next == Add \/ Update \/ Delete \/ Refresh \/ Search \/ Filter \/ Sort

Spec == Init /\ [][Next]_vars

(* Specification of the sorted listing the manager keeps as its full view *)

AddSorted == \E d \in SortData : seq < MaxId /\ MgrAdd(d)
UpdateSorted == \E i \in IdArgs, d \in SortData : MgrUpdate(i, d)

SortAny == \E s \in Sorts : SetSort(s[1], s[2])

NextSort == AddSorted \/ UpdateSorted \/ Delete \/ SortAny

SpecSort == Init /\ [][NextSort]_vars

(* Specification of listings requested with a field outside the allow-list *)

SortList == \E s \in ListSorts : SetSort(s[1], s[2])

NextList == AddSorted \/ UpdateSorted \/ Delete \/ SortList

SpecList == Init /\ [][NextList]_vars

(* Specification of searches *)

AddSearch == \E d \in SearchData : seq < MaxIdSearch /\ MgrAdd(d)
DeleteSearch == \E i \in 1..MaxIdSearch : MgrDelete(i)
SearchAny == \E t \in QueryTerms, f \in QueryFilters : DbSearch(t, f, FALSE)

NextSearch == AddSearch \/ DeleteSearch \/ SearchAny

SpecSearch == Init /\ [][NextSearch]_vars

(* Specification of queries that fail *)

AddFault == \E d \in StoreData : seq < MaxIdFault /\ MgrAdd(d)
DeleteFault == \E i \in 1..MaxIdFault : MgrDelete(i)
ListFault == \E fails \in BOOLEAN : DbList("house", "ASC", fails)
SearchFault == \E fails \in BOOLEAN : DbSearch(<<100, 105>>, <<>>, fails)
StatsFault == \E fails \in BOOLEAN : DbStats(fails)
TopHousesFault == \E fails \in BOOLEAN : DbTopHouses(3, fails)
TopNotesFault == \E fails \in BOOLEAN : DbTopNotes(10, fails)
TopNotesFromFavoritesFault == \E fails \in BOOLEAN : DbTopNotesFromFavorites(10, fails)
SeasonalAveragesFault == \E fails \in BOOLEAN : DbSeasonalAverages(fails)
SeasonalPreferencesFault == \E fails \in BOOLEAN : DbSeasonalPreferences(fails)
RefreshFault == \E point \in {"list", "search"} : MgrRefreshFault(point)

NextFault ==
    \/ AddFault \/ DeleteFault \/ Search \/ RefreshFault
    \/ ListFault \/ SearchFault \/ StatsFault \/ TopHousesFault \/ TopNotesFault
    \/ TopNotesFromFavoritesFault \/ SeasonalAveragesFault \/ SeasonalPreferencesFault

SpecFault == Init /\ [][NextFault]_vars

(* Specification of exports *)

AddExport == \E d \in StoreData : seq < MaxIdExport /\ MgrAdd(d)
DeleteExport == \E i \in 1..MaxIdExport : MgrDelete(i)
Export ==
    \E m \in FieldMaps, fault \in Faults, flushed \in 0..(Len(fragrances) + 1) :
        (fault # "write" => flushed = 0) /\ ExportCsv(m, fault, flushed)

NextExport == AddExport \/ DeleteExport \/ Export

SpecExport == Init /\ [][NextExport]_vars

(* Specification of the aggregate queries *)

AddStats == \E d \in StatsData : seq < MaxIdStats /\ MgrAdd(d)
DeleteStats == \E i \in 1..MaxIdStats : MgrDelete(i)
SeasonalPreferences == DbSeasonalPreferences(FALSE)
TopNotesAny == \E limit \in Limits : DbTopNotes(limit, FALSE)
TopNotesFromFavoritesAny == \E limit \in Limits : DbTopNotesFromFavorites(limit, FALSE)

NextStats ==
    AddStats \/ DeleteStats \/ SeasonalPreferences \/ TopNotesAny \/ TopNotesFromFavoritesAny

SpecStats == Init /\ [][NextStats]_vars

(* Specification of the two views under the sort options of the panel *)

AddView == \E d \in ViewData : seq < MaxIdView /\ MgrAdd(d)
DeleteView == \E i \in 1..MaxIdView : MgrDelete(i)
SearchView == \E t \in ViewTerms : SetSearchTerm(t)
FilterView == \E f \in ViewFilters : SetFilters(f)
SortView == \E s \in ViewSorts : SetSort(s[1], s[2])

NextView == AddView \/ DeleteView \/ SearchView \/ FilterView \/ SortView

SpecView == Init /\ [][NextView]_vars

(* Specification of the full view under the "Favorites First" sort option *)

AddFavorites == \E d \in ViewData : seq < MaxIdFavorites /\ MgrAdd(d)
DeleteFavorites == \E i \in 1..MaxIdFavorites : MgrDelete(i)
SortFavorites == \E s \in FavoriteSorts : SetSort(s[1], s[2])

NextFavorites == AddFavorites \/ DeleteFavorites \/ SortFavorites

SpecFavorites == Init /\ [][NextFavorites]_vars

(* Specification of the favorite toggle of the cards *)

AddToggle == \E d \in ToggleData : seq < MaxIdToggle /\ MgrAdd(d)
Toggle == \E i \in 1..MaxIdToggle, b \in BOOLEAN : ToggleFavorite(i, b)

NextToggle == AddToggle \/ Toggle \/ Tick

SpecToggle == Init /\ [][NextToggle]_vars

(* Specification of edits through the dialog and of partial updates *)

AddEdit == \E d \in StoreData : seq < MaxIdEdit /\ MgrAdd(d)
UpdateEdit == \E i \in 1..MaxIdEdit, d \in PartialData : MgrUpdate(i, d)
Edit == \E i \in 1..MaxIdEdit, typed \in Typed : EditFragrance(i, typed)

NextEdit == AddEdit \/ UpdateEdit \/ Edit

SpecEdit == Init /\ [][NextEdit]_vars

(* Specification of the storage layer with its clock *)

AddStore == \E d \in StoreData : seq < MaxIdStore /\ MgrAdd(d)
UpdateStore == \E i \in 1..MaxIdStore, d \in StoreData : MgrUpdate(i, d)
DeleteStore == \E i \in 1..MaxIdStore : MgrDelete(i)

NextStore == AddStore \/ UpdateStore \/ DeleteStore \/ Tick

SpecStore == Init /\ [][NextStore]_vars

(* Specification of the keys storage assigns *)

AddIds == \E d \in StoreData : seq < MaxIdIds /\ MgrAdd(d)
UpdateIds == \E i \in 1..MaxIdIds, d \in StoreData : MgrUpdate(i, d)
DeleteIds == \E i \in 1..MaxIdIds : MgrDelete(i)

NextIds == AddIds \/ UpdateIds \/ DeleteIds

SpecIds == Init /\ [][NextIds]_vars

(* Specification of the values storage and the record model keep *)

AddValues == \E d \in ValueData : seq < MaxIdValues /\ MgrAdd(d)
UpdateValues == \E i \in 1..MaxIdValues, d \in ValueData : MgrUpdate(i, d)
DeleteValues == \E i \in 1..MaxIdValues : MgrDelete(i)
SetSeason == \E k \in SeasonKeys, x \in RatingInputs : SetRating(k, x)
SetLongevitySillage == \E k \in {"longevity", "sillage"}, x \in PerformanceInputs : SetPerformance(k, x)
SetSize == \E x \in SizeInputs : SetSizeOz(x)

NextValues == AddValues \/ UpdateValues \/ DeleteValues

SpecValues == Init /\ [][NextValues]_vars

NextSetters == SetSeason \/ SetLongevitySillage \/ SetSize

SpecSetters == Init /\ [][NextSetters]_vars

----------------------------------------------------------------------------
(* Claims *)

CreedAventus == [house |-> Creed, name |-> Aventus, size_oz |-> 34, winter_rating |-> 460]

Mutations == {"add", "update", "delete"}

\* the stored row with the given id
RowOf(id) == CHOOSE r \in table : r.id = id

\* C1: every stored record has size_ml equal to size_oz * 29.5735 rounded to
\* one decimal place (the nearest tenth of a millilitre), after any creates
\* and updates, whatever size_ml the caller supplied.
C1_SizeMlDerived ==
    \A r \in table :
        LET exact == r.size_oz * 295735
            stored == r.size_ml * 10000
        IN  /\ 2 * (stored - exact) <= 10000
            /\ 2 * (exact - stored) <= 10000

\* an update whose dict carried its own size_ml has stored the derived one
C1_Witness ==
    /\ lastOp.op = "update"
    /\ lastOp.ok
    /\ "size_ml" \in DOMAIN lastOp.data
    /\ lastOp.data.size_ml = 999
    /\ RowOf(lastOp.id).size_oz = 17
    /\ RowOf(lastOp.id).size_ml = 503

\* C2: every stored record has its four seasonal ratings in [1.0, 5.0] and on
\* a multiple of 0.25.
C2_RatingsClampedQuantized ==
    \A r \in table : \A k \in SeasonKeys :
        /\ r[k] >= 100
        /\ r[k] <= 500
        /\ r[k] % 25 = 0

\* C3: every stored record has longevity and sillage in 1..5.
C3_PerformanceClamped ==
    \A r \in table :
        /\ r.longevity \in 1..5
        /\ r.sillage \in 1..5

C5_OneRefreshPerMutation ==
    lastOp.op \in Mutations =>
        /\ lastOp.emits = 1
        /\ lastOp.refreshes = 1
        /\ lastOp.signals = 1
        /\ lastOp.direct = 0

\* an update that matched no record, on a table that has records
C5_Witness ==
    /\ lastOp.op = "update"
    /\ ~lastOp.ok
    /\ table # {}
    /\ lastOp.refreshes = 1

\* C6: the refresh a mutation triggers reads the table after the write: the
\* full view holds the created record, holds the updated record with its new
\* values, and no longer holds the deleted record.
C6_RefreshSeesWrite ==
    /\ lastOp.op = "add" =>
          \E i \in 1..Len(fragrances) :
              /\ fragrances[i].id = lastOp.id
              /\ fragrances[i].house = lastOp.data.house
              /\ fragrances[i].name = lastOp.data.name
    /\ (lastOp.op = "update" /\ lastOp.ok) =>
          \E i \in 1..Len(fragrances) :
              /\ fragrances[i].id = lastOp.id
              /\ fragrances[i].house = lastOp.data.house
              /\ fragrances[i].name = lastOp.data.name
              /\ fragrances[i].longevity = lastOp.data.longevity
              /\ fragrances[i].is_favorite = Get(lastOp.data, "is_favorite", FALSE)
    /\ lastOp.op = "delete" =>
          \A i \in 1..Len(fragrances) : fragrances[i].id # lastOp.id

\* a delete that removed one of two records
C6_Witness ==
    /\ lastOp.op = "delete"
    /\ lastOp.ok
    /\ Len(fragrances) = 1
    /\ fragrances[1].id # lastOp.id

\* C7: every record of the filtered view is in the full view, with the same
\* field values under the same id.
C7_FilteredWithinFull ==
    \A i \in 1..Len(filtered) :
        /\ \E j \in 1..Len(fragrances) : fragrances[j].id = filtered[i].id
        /\ \A j \in 1..Len(fragrances) :
              fragrances[j].id = filtered[i].id => fragrances[j] = filtered[i]

\* a mutation completed while a filter keeps part of the full view out
C7_Witness ==
    /\ lastOp.op \in Mutations
    /\ DOMAIN filters # {}
    /\ Len(filtered) >= 1
    /\ Len(filtered) < Len(fragrances)

\* C8: no two stored records share an id; add returns the id of the record
\* it created, an id no record had; an update leaves the ids as they were.
C8_Identity ==
    /\ [](\A r1, r2 \in table : r1.id = r2.id => r1 = r2)
    /\ [][/\ lastOp'.op = "add" =>
                /\ lastOp'.id \notin Ids(table)
                /\ Ids(table') = Ids(table) \cup {lastOp'.id}
                /\ Cardinality(table') = Cardinality(table) + 1
          /\ lastOp'.op = "update" =>
                /\ Ids(table') = Ids(table)
                /\ Cardinality(table') = Cardinality(table)]_vars

\* a record created after the first one was deleted: it gets a new id
C8_Witness ==
    /\ lastOp.op = "add"
    /\ lastOp.id = 3
    /\ Ids(table) = {2, 3}

\* C9: update and delete return whether a record had the id; when none had,
\* the table is left as it was.
C9_NotFound ==
    [][lastOp'.op \in {"update", "delete"} =>
          /\ lastOp'.ok = (lastOp'.id \in Ids(table))
          /\ lastOp'.id \notin Ids(table) => table' = table]_vars

\* an update that matched no record, on a table that has records
C9_Witness ==
    /\ lastOp.op = "update"
    /\ ~lastOp.ok
    /\ table # {}
    /\ lastOp.id \notin Ids(table)

\* C10: the listing holds every stored record once, ordered by the sort field
\* in the requested direction (ascending unless the order is DESC), then by
\* house ascending, then by name ascending.
C10_ListOrdered ==
    sort_field \in valid_sort_fields =>
        /\ Len(fragrances) = Cardinality(table)
        /\ {fragrances[i].id : i \in 1..Len(fragrances)} = Ids(table)
        /\ \A i, j \in 1..Len(fragrances) :
              i < j =>
                LET a == fragrances[i]
                    b == fragrances[j]
                    ka == IF sort_order = "DESC" THEN b[sort_field] ELSE a[sort_field]
                    kb == IF sort_order = "DESC" THEN a[sort_field] ELSE b[sort_field]
                IN  \/ ColLess(sort_field, ka, kb)
                    \/ /\ ka = kb
                       /\ \/ TextLess(a.house, b.house)
                          \/ /\ a.house = b.house
                             /\ (TextLess(a.name, b.name) \/ a.name = b.name)

\* an unrecognized order, two records that tie on the sort field and are
\* listed by house
C10_Witness ==
    /\ sort_field = "name"
    /\ sort_order = "desc"
    /\ Len(fragrances) = 2
    /\ fragrances[1].name = fragrances[2].name
    /\ fragrances[1].house = Creed
    /\ fragrances[2].house = Dior
    /\ fragrances[1].id > fragrances[2].id

\* the full view is ordered by house in direction dir, then by name ascending
HouseOrdered(dir) ==
    \A i, j \in 1..Len(fragrances) :
        i < j =>
            LET a == fragrances[i]
                b == fragrances[j]
            IN  \/ IF dir = "DESC" THEN TextLess(b.house, a.house)
                                   ELSE TextLess(a.house, b.house)
                \/ /\ a.house = b.house
                   /\ (TextLess(a.name, b.name) \/ a.name = b.name)

\* C11: a listing requested with a sort field outside the allow-list is a
\* listing by house with the same sort_order argument: the two requests have
\* the same possible results, and the full view is one of them.
C11_BogusFieldIsHouse ==
    sort_field \notin valid_sort_fields =>
        /\ get_all_fragrances(table, sort_field, sort_order)
              = get_all_fragrances(table, "house", sort_order)
        /\ \E lst \in get_all_fragrances(table, "house", sort_order) :
              fragrances = FromRows(lst)

\* a listing by "bogus_field" of two houses stored in the opposite order
C11_Witness ==
    /\ sort_field = "bogus_field"
    /\ Len(fragrances) = 2
    /\ fragrances[1].house = Creed
    /\ fragrances[2].house = Dior
    /\ fragrances[1].id > fragrances[2].id

\* C12 as stated: a listing requested with a sort field outside the
\* allow-list is ordered by house ascending, then name ascending, whatever
\* sort_order came with it.
C12_AsStated ==
    sort_field \notin valid_sort_fields =>
        /\ Len(fragrances) = Cardinality(table)
        /\ HouseOrdered("ASC")

\* C12: a listing requested with a sort field outside the allow-list is
\* accepted and ordered by house, then name ascending; the sort_order
\* argument is kept, so the house order is descending when it is DESC and
\* ascending otherwise.
C12_FieldNormalizedOrderKept ==
    sort_field \notin valid_sort_fields =>
        /\ Len(fragrances) = Cardinality(table)
        /\ {fragrances[i].id : i \in 1..Len(fragrances)} = Ids(table)
        /\ HouseOrdered(IF sort_order = "DESC" THEN "DESC" ELSE "ASC")

\* "Favorites First": is_favorite with DESC lists Dior before Creed
C12_Witness ==
    /\ sort_field = "is_favorite"
    /\ sort_order = "DESC"
    /\ Len(fragrances) = 2
    /\ fragrances[1].house = Dior
    /\ fragrances[2].house = Creed

\* s contains t, compared without regard to ASCII case
Contains(s, t) ==
    \E off \in 0..(Len(s) - Len(t)) :
        \A i \in 1..Len(t) : LowerChar(s[off + i]) = LowerChar(t[i])

\* the condition C13 puts on a record returned for term and filters f
Matches(r, term, f) ==
    /\ Contains(r.house, term) \/ Contains(r.name, term)
    /\ "notes" \in DOMAIN f =>
          \E n \in 1..Len(f.notes) :
              \/ Contains(r.top_notes, f.notes[n])
              \/ Contains(r.middle_notes, f.notes[n])
              \/ Contains(r.base_notes, f.notes[n])
    /\ "season" \in DOMAIN f => (f.season = Winter => r.winter_rating >= 350)
    /\ "house" \in DOMAIN f => r.house = f.house
    /\ ("favorite" \in DOMAIN f /\ f.favorite) => r.is_favorite = 1

\* C13: search returns exactly the stored records whose house or name
\* contains the term without regard to case and which pass every filter
\* present (one of the notes contained in a note field, the season's rating at
\* least 3.5, the house equal, favorite), ordered by house then name ascending.
C13_SearchExact ==
    lastOp.op = "search_fragrances" =>
        LET res == lastOp.data.result
            term == lastOp.data.args[1]
            f == lastOp.data.args[2]
        IN  /\ {res[i] : i \in 1..Len(res)} = {r \in table : Matches(r, term, f)}
            /\ \A i, j \in 1..Len(res) :
                  i < j =>
                      \/ TextLess(res[i].house, res[j].house)
                      \/ /\ res[i].house = res[j].house
                         /\ TextLess(res[i].name, res[j].name) \/ res[i].name = res[j].name

\* C14: a search with an empty term and an empty filter dict returns the
\* records of the table, each once and with its stored values, and its result
\* is a possible result of the default listing (house, ASC).
C14_SearchAllIsList ==
    (lastOp.op = "search_fragrances" /\ lastOp.data.args = <<Empty, <<>>>>) =>
        LET res == lastOp.data.result
        IN  /\ Len(res) = Cardinality(table)
            /\ {res[i] : i \in 1..Len(res)} = table
            /\ res \in get_all_fragrances(table, "house", "ASC")
            /\ search_fragrances(table, Empty, <<>>)
                  = get_all_fragrances(table, "house", "ASC")

\* the search of a table of two records, the later one listed first
C14_Witness ==
    /\ lastOp.op = "search_fragrances"
    /\ lastOp.data.args = <<Empty, <<>>>>
    /\ Len(lastOp.data.result) = 2
    /\ lastOp.data.result[1].house = Creed
    /\ lastOp.data.result[1].id = 2

StorageQueries ==
    {"get_all_fragrances", "search_fragrances", "get_collection_stats", "get_top_houses",
     "get_top_notes", "get_top_notes_from_favorites", "get_seasonal_averages",
     "get_seasonal_preferences"}

\* C15: a storage query whose SQL fails returns an empty result to its caller
\* and raises nothing, and a refresh of the collection manager raises nothing.
C15_QueriesDegrade ==
    /\ (lastOp.op \in StorageQueries /\ lastOp.data.failed) =>
          (lastOp.ok /\ lastOp.data.result = <<>>)
    /\ lastOp.op = "refresh_collection" => lastOp.ok

\* C16: an export of no records returns False and leaves the target as it
\* was, absent or with its former content, whatever the field-selection map
\* and whatever the file system would have done.
C16_EmptyExportFails ==
    (lastOp.op = "export" /\ Len(lastOp.data.records) = 0) =>
        /\ ~lastOp.ok
        /\ csvfile = lastOp.data.before

\* an export of no records, without a field-selection map, onto an earlier
\* export of two records
C16_Witness ==
    /\ lastOp.op = "export"
    /\ Len(lastOp.data.records) = 0
    /\ "None" \in DOMAIN lastOp.data.selected_fields
    /\ csvfile.exists
    /\ Len(csvfile.lines) = 3

\* C17: a successful export of a non-empty record set has the House and Name
\* columns in its header, and every data row has the record's house and name
\* in them.
C17_HouseAndNameAlways ==
    (lastOp.op = "export" /\ lastOp.ok) =>
        LET header == csvfile.lines[1]
            records == lastOp.data.records
        IN  /\ Len(csvfile.lines) = Len(records) + 1
            /\ \E h, n \in 1..Len(header) :
                  /\ header[h] = "House"
                  /\ header[n] = "Name"
                  /\ \A i \in 1..Len(records) :
                        /\ Len(csvfile.lines[i + 1]) = Len(header)
                        /\ csvfile.lines[i + 1][h] = records[i].house
                        /\ csvfile.lines[i + 1][n] = records[i].name

\* C18: after an export that returned False the target is as it was before
\* the call (absent or unchanged) or holds the complete export.
C18_NoPartialFile ==
    (lastOp.op = "export" /\ ~lastOp.ok) =>
        \/ csvfile = lastOp.data.before
        \/ /\ csvfile.exists
           /\ csvfile.lines = ExportLines(lastOp.data.records, lastOp.data.selected_fields)

\* the records whose rating for season key is the highest of their four
BestIn(key) == {r \in table : \A k \in SeasonKeys : r[key] >= r[k]}

\* C19: seasonal_preferences returns for each season the number of stored
\* records whose rating for that season is the maximum of their four seasonal
\* ratings, a record tied in several seasons being counted in each.
C19_SeasonalPreferences ==
    lastOp.op = "get_seasonal_preferences" =>
        lastOp.data.result =
            [winter_count |-> Cardinality(BestIn("winter_rating")),
             spring_count |-> Cardinality(BestIn("spring_rating")),
             summer_count |-> Cardinality(BestIn("summer_rating")),
             fall_count |-> Cardinality(BestIn("fall_rating"))]

\* the record with winter 5.0, spring 5.0, summer 3.0, fall 2.0 alone in the
\* table: winter_count and spring_count are 1, the other two 0
C19_Witness ==
    /\ lastOp.op = "get_seasonal_preferences"
    /\ Cardinality(table) = 1
    /\ \A r \in table : /\ r.winter_rating = 500 /\ r.spring_rating = 500
                        /\ r.summer_rating = 300 /\ r.fall_rating = 200
    /\ lastOp.data.result = [winter_count |-> 1, spring_count |-> 1,
                              summer_count |-> 0, fall_count |-> 0]

\* how often note is a trimmed token of field
RECURSIVE Occurrences(_, _)
Occurrences(field, note) ==
    LET commas == {i \in 1..Len(field) : field[i] = 44}
        k == IF commas = {} THEN Len(field) + 1
             ELSE CHOOSE i \in commas : \A j \in commas : i <= j
        token == SubSeq(field, 1, k - 1)
        inner == {i \in 1..Len(token) : token[i] \notin Whitespace}
        here == /\ inner # {}
                /\ \E a, b \in inner :
                      /\ \A i \in inner : a <= i /\ i <= b
                      /\ SubSeq(token, a, b) = note
    IN  Flag(here) + (IF commas = {} THEN 0
                      ELSE Occurrences(SubSeq(field, k + 1, Len(field)), note))

RECURSIVE NoteCount(_, _)
NoteCount(rows, note) ==
    IF rows = {} THEN 0
    ELSE LET r == CHOOSE x \in rows : TRUE
         IN  Occurrences(r.top_notes, note) + Occurrences(r.middle_notes, note)
               + Occurrences(r.base_notes, note) + NoteCount(rows \ {r}, note)

\* every text that is a piece of a note field, among them every token
Pieces(rows) ==
    UNION {UNION {{SubSeq(fld, a, b) : a, b \in 1..Len(fld)} :
                     fld \in {r.top_notes, r.middle_notes, r.base_notes}} : r \in rows}

\* C20: top_notes returns at most limit pairs (note, count), each note once,
\* a non-empty trimmed token paired with the number of its occurrences as a
\* comma-separated token of the top, middle and base notes of the records
\* (the favorites only for the favorites query), in non-increasing count
\* order, and no token left out occurs more often than one returned.
C20_TopNotes ==
    lastOp.op \in {"get_top_notes", "get_top_notes_from_favorites"} =>
        LET res == lastOp.data.result
            limit == lastOp.data.args[1]
            rows == IF lastOp.op = "get_top_notes" THEN table
                    ELSE {r \in table : r.is_favorite = 1}
            tokens == {p \in Pieces(rows) : NoteCount(rows, p) > 0}
            returned == {res[i][1] : i \in 1..Len(res)}
        IN  /\ Len(res) = Min(limit, Cardinality(tokens))
            /\ Cardinality(returned) = Len(res)
            /\ \A i \in 1..Len(res) :
                  /\ res[i][1] \in tokens
                  /\ res[i][1][1] \notin Whitespace
                  /\ res[i][1][Len(res[i][1])] \notin Whitespace
                  /\ res[i][2] = NoteCount(rows, res[i][1])
            /\ \A i \in 1..(Len(res) - 1) : res[i][2] >= res[i + 1][2]
            /\ \A t \in tokens \ returned :
                  \A i \in 1..Len(res) : res[i][2] >= NoteCount(rows, t)

\* the records "Rose, Oud" and "Oud, Vanilla" with limit 2: Oud with 2, then
\* Vanilla with 1
C20_Witness ==
    /\ lastOp.op = "get_top_notes"
    /\ lastOp.data.args = <<2>>
    /\ {r.top_notes : r \in table} = {RoseOud, OudVanilla}
    /\ lastOp.data.result = <<<<Oud, 2>>, <<Vanilla, 1>>>>

\* two dicts hold the same entries
SameDict(a, b) ==
    IF DOMAIN a = {} \/ DOMAIN b = {} THEN DOMAIN a = {} /\ DOMAIN b = {} ELSE a = b

\* two views hold the same records, in the same order but for records that
\* tie on house and name, whose order a query leaves open
SameView(v, w) ==
    /\ Len(v) = Len(w)
    /\ {v[i] : i \in 1..Len(v)} = {w[i] : i \in 1..Len(w)}
    /\ \A i \in 1..Len(v) : v[i].house = w[i].house /\ v[i].name = w[i].name

\* no term and no filter is active
Unfiltered == search_term = Empty /\ DOMAIN filters = {}

\* the filtered views _apply_filters can derive in the current state
DerivedViews ==
    IF Unfiltered THEN {fragrances}
    ELSE {FromRows(res) : res \in search_fragrances(table, search_term, filters)}

\* C21: set_filters always stores the dict, derives the filtered view again
\* (with one storage search when a term or filter is active, none otherwise)
\* and emits collection_updated once, also when the dict is the current one;
\* it leaves the full view, the term, the sort and storage as they were, and
\* a second call with the same dict gives the same filtered view.
C21_SetFilters ==
    [][lastOp'.op = "set_filters" =>
          /\ lastOp'.signals = 1
          /\ lastOp'.lists = 0
          /\ lastOp'.refreshes = 0
          /\ lastOp'.searches = (IF Unfiltered' THEN 0 ELSE 1)
          /\ SameDict(filters', lastOp'.data.filters)
          /\ filtered' \in DerivedViews'
          /\ UNCHANGED <<table, fragrances, search_term, sort_field, sort_order>>
          /\ (lastOp.op = "set_filters" /\ SameDict(lastOp.data.filters, lastOp'.data.filters))
                => SameView(filtered, filtered')]_vars

\* set_filters called with the dict already in force, which keeps one of two
\* records out
C21_Witness ==
    /\ lastOp.op = "set_filters"
    /\ DOMAIN lastOp.data.was # {}
    /\ SameDict(lastOp.data.was, lastOp.data.filters)
    /\ lastOp.signals = 1
    /\ lastOp.searches = 1
    /\ Len(filtered) = 1
    /\ Len(fragrances) = 2

\* C22: set_search_term with the current term and set_sort with the current
\* field and order change nothing in the manager, query nothing and emit
\* nothing.  With another term set_search_term stores it, derives the filtered
\* view again and emits once without fetching the full view; with another
\* sort set_sort stores it and runs one refresh, which fetches the full view
\* in the new sort, derives the filtered view and emits once.
C22_SetTermAndSort ==
    [][/\ lastOp'.op = "set_search_term" =>
             IF lastOp'.data = search_term
             THEN /\ UNCHANGED <<mgrVars, table>>
                  /\ lastOp'.lists = 0 /\ lastOp'.searches = 0 /\ lastOp'.signals = 0
             ELSE /\ search_term' = lastOp'.data
                  /\ filtered' \in DerivedViews'
                  /\ UNCHANGED <<fragrances, filters, sort_field, sort_order, table>>
                  /\ lastOp'.lists = 0 /\ lastOp'.refreshes = 0
                  /\ lastOp'.searches = (IF Unfiltered' THEN 0 ELSE 1)
                  /\ lastOp'.signals = 1
       /\ lastOp'.op = "set_sort" =>
             IF lastOp'.data = <<sort_field, sort_order>>
             THEN /\ UNCHANGED <<mgrVars, table>>
                  /\ lastOp'.lists = 0 /\ lastOp'.searches = 0 /\ lastOp'.signals = 0
             ELSE /\ <<sort_field', sort_order'>> = lastOp'.data
                  /\ \E lst \in get_all_fragrances(table, sort_field', sort_order') :
                        fragrances' = FromRows(lst)
                  /\ filtered' \in DerivedViews'
                  /\ UNCHANGED <<search_term, filters, table>>
                  /\ lastOp'.refreshes = 1 /\ lastOp'.lists = 1
                  /\ lastOp'.searches = (IF Unfiltered' THEN 0 ELSE 1)
                  /\ lastOp'.signals = 1]_vars

\* set_search_term called with the term already in force, while it keeps one
\* of two records out
C22_Witness ==
    /\ lastOp.op = "set_search_term"
    /\ lastOp.data # Empty
    /\ lastOp.signals = 0
    /\ lastOp.searches = 0
    /\ Len(filtered) = 1
    /\ Len(fragrances) = 2

\* C23: with no term and no filter the filtered view is the full view, and
\* the operation that derived it issued no storage search; with a term or a
\* filter it is a result of search_fragrances(term, filters) on the table as
\* it is now.
C23_FilteredView ==
    /\ Unfiltered =>
          /\ filtered = fragrances
          /\ lastOp.searches = 0
    /\ ~Unfiltered =>
          \E res \in search_fragrances(table, search_term, filters) :
              filtered = FromRows(res)

\* the filter cleared while the full view is sorted by longevity descending:
\* the filtered view is the full view, Dior before Creed
C23_Witness ==
    /\ lastOp.op = "set_filters"
    /\ DOMAIN lastOp.data.was # {}
    /\ Unfiltered
    /\ sort_field = "longevity"
    /\ Len(filtered) = 2
    /\ filtered[1].house = Dior
    /\ filtered[2].house = Creed

\* C24: an update of an existing record gives it the values of the dict and
\* the current time as updated_at, keeps its id and created_at, and leaves
\* every other record as it was; a delete removes the record with the id and
\* no other.
C24_UpdateDeleteFrame ==
    [][/\ (lastOp'.op = "update" /\ lastOp'.ok) =>
             \E old \in table, new \in table' :
                 /\ old.id = lastOp'.id
                 /\ new.id = lastOp'.id
                 /\ new.created_at = old.created_at
                 /\ new.updated_at = now
                 /\ new.house = lastOp'.data.house
                 /\ new.name = lastOp'.data.name
                 /\ new.size_oz = Get(lastOp'.data, "size_oz", 0)
                 /\ new.is_favorite = Flag(Get(lastOp'.data, "is_favorite", FALSE))
                 /\ new = Row(old.id, BoundValues(lastOp'.data), old.created_at, now)
                 /\ table' \ {new} = table \ {old}
       /\ lastOp'.op = "delete" =>
             table' = {r \in table : r.id # lastOp'.id}]_vars

\* a record created at time 0 and updated at time 1, next to another record
C24_Witness ==
    /\ lastOp.op = "update"
    /\ lastOp.ok
    /\ Cardinality(table) = 2
    /\ RowOf(lastOp.id).created_at = 0
    /\ RowOf(lastOp.id).updated_at = 1
    /\ \E r \in table : r.id # lastOp.id /\ r.updated_at = 0

\* C25: after every manager operation the full view is what
\* get_all_fragrances(sort field, sort order) returns on the table as it is
\* now: the same records with the same values in the same order.
C25_CacheIsListing ==
    /\ Len(fragrances) = Cardinality(table)
    /\ \E lst \in get_all_fragrances(table, sort_field, sort_order) :
          fragrances = FromRows(lst)

\* an update has moved a record to the front of the view sorted by longevity
\* descending
C25_Witness ==
    /\ lastOp.op = "update"
    /\ lastOp.ok
    /\ sort_field = "longevity"
    /\ Len(fragrances) = 2
    /\ fragrances[1].id = lastOp.id
    /\ fragrances[1].longevity = 5
    /\ fragrances[2].longevity = 2
    /\ fragrances[1].house = Dior

\* the keys update_fragrance reads from the dict, by the default it binds for
\* a key that is absent
TextKeys ==
    {"house", "name", "concentration", "top_notes", "middle_notes", "base_notes",
     "original_fragrance"}

DefaultOf(k) ==
    IF k \in TextKeys THEN Empty
    ELSE IF k \in SeasonKeys THEN 300
    ELSE IF k \in {"longevity", "sillage"} THEN 3
    ELSE 0

\* the keys of the dict FragranceDialog.get_fragrance_data returns
DialogKeys == (TextKeys \cup SeasonKeys) \cup {"size_oz", "longevity", "sillage", "is_clone"}

\* C26: an update sets every column whose key the dict lacks to the default
\* of the column, whatever the record held (size_ml, which is never read
\* from the dict, to the conversion of the size_oz so stored); a favorite
\* edited through the dialog, whose dict has no is_favorite key, is no
\* longer a favorite.
C26_UpdateReplacesWithDefaults ==
    [][(lastOp'.op = "update" /\ lastOp'.ok) =>
          \E old \in table, new \in table' :
              /\ old.id = lastOp'.id
              /\ new.id = lastOp'.id
              /\ \A k \in (DialogKeys \cup {"is_favorite"}) \ DOMAIN lastOp'.data :
                    new[k] = DefaultOf(k)
              /\ new.size_ml = Round(new.size_oz * 295735, 10000)
              /\ (DOMAIN lastOp'.data = DialogKeys /\ old.is_favorite = 1)
                    => new.is_favorite = 0]_vars

\* the favorite Dior Sauvage after an edit in the dialog that set its
\* longevity to 4: no longer a favorite
C26_Witness ==
    /\ lastOp.op = "update"
    /\ lastOp.ok
    /\ DOMAIN lastOp.data = DialogKeys
    /\ \A r \in table : r.house = Dior /\ r.name = Sauvage
    /\ RowOf(lastOp.id).longevity = 4
    /\ RowOf(lastOp.id).is_favorite = 0
    /\ RowOf(lastOp.id).updated_at = RowOf(lastOp.id).created_at
    /\ seq = 1

\* the view v is ordered by house ascending, then by name ascending
ByHouseThenName(v) ==
    \A i, j \in 1..Len(v) :
        i < j =>
            \/ TextLess(v[i].house, v[j].house)
            \/ /\ v[i].house = v[j].house
               /\ (TextLess(v[i].name, v[j].name) \/ v[i].name = v[j].name)

\* C27: while a search term or a filter is active the filtered view is
\* ordered by house ascending, then name ascending, whatever the sort is;
\* a set_sort made while one is active changes the sort and the full view
\* but leaves the filtered view as it was; with nothing active the filtered
\* view is the full view, in the order of the sort.
C27_FilteredOrderIgnoresSort ==
    [][/\ ~Unfiltered' => ByHouseThenName(filtered')
       /\ Unfiltered' => filtered' = fragrances'
       /\ (lastOp'.op = "set_sort" /\ ~Unfiltered /\ lastOp'.refreshes = 1) =>
             /\ sort_field' = lastOp'.data[1]
             /\ sort_order' = lastOp'.data[2]
             /\ SameView(filtered, filtered')]_vars

\* sorted by longevity descending under the term "a": the full view lists
\* Dior Sauvage first, the filtered view Creed Aventus first
C27_Witness ==
    /\ lastOp.op = "set_sort"
    /\ sort_field = "longevity"
    /\ sort_order = "DESC"
    /\ search_term = <<97>>
    /\ Len(filtered) = 2
    /\ Len(fragrances) = 2
    /\ fragrances[1].house = Dior
    /\ fragrances[1].longevity = 5
    /\ fragrances[2].house = Creed
    /\ filtered[1].house = Creed
    /\ filtered[2].house = Dior

\* C28: after set_sort("is_favorite", "DESC") the full view holds every
\* record ordered by house descending, then name ascending: the favorite
\* flag has no part in the order, which is the one of set_sort("house",
\* "DESC").
C28_FavoritesFirstIsHouseDesc ==
    (sort_field = "is_favorite" /\ sort_order = "DESC") =>
        /\ {fragrances[i].id : i \in 1..Len(fragrances)} = Ids(table)
        /\ Len(fragrances) = Cardinality(table)
        /\ HouseOrdered("DESC")
        /\ \E lst \in get_all_fragrances(table, "house", "DESC") : fragrances = FromRows(lst)

\* "Favorites First" with a record that is no favorite listed between two
\* favorites
C28_Witness ==
    /\ sort_field = "is_favorite"
    /\ sort_order = "DESC"
    /\ Len(fragrances) = 3
    /\ fragrances[1].is_favorite
    /\ ~fragrances[2].is_favorite
    /\ fragrances[3].is_favorite
    /\ fragrances[1].house = Dior
    /\ fragrances[3].house = Creed

\* C29: the id an add returns is greater than the largest id any earlier add
\* returned, which the sequence of the table records and which no other
\* operation changes, deletes included; so it is greater than every id
\* returned before and than every id stored, and it is the new largest.
C29_IdsNeverReused ==
    /\ [](\A r \in table : r.id <= seq)
    /\ [][/\ lastOp'.op = "add" =>
                /\ lastOp'.id > seq
                /\ seq' = lastOp'.id
                /\ \A r \in table : lastOp'.id > r.id
          /\ lastOp'.op # "add" => seq' = seq]_vars

\* an add after the only record, which had the largest id, was deleted: the
\* new record does not get that id again
C29_Witness ==
    /\ lastOp.op = "add"
    /\ lastOp.id = 2
    /\ Ids(table) = {2}
    /\ seq = 2

\* C30: an update of a stored record with the to_dict of its own
\* from_db_row, in which only is_favorite was set, leaves the record as it
\* was in every column but is_favorite, which becomes the flag of the dict,
\* and updated_at, which becomes the time of the update; the other records
\* stay as they were.
C30_ToggleRoundTrip ==
    [][\A old \in table :
          (/\ lastOp'.op = "update"
           /\ lastOp'.id = old.id
           /\ DOMAIN lastOp'.data = DOMAIN to_dict(from_db_row(old))
           /\ lastOp'.data = [to_dict(from_db_row(old)) EXCEPT
                                 !.is_favorite = lastOp'.data.is_favorite])
          => /\ lastOp'.ok
             /\ table' = (table \ {old}) \cup
                            {[old EXCEPT !.is_favorite = Flag(lastOp'.data.is_favorite),
                                         !.updated_at = now]}]_vars

\* Dior Sauvage, stored with ratings and performance values out of range,
\* made a favorite later than it was created: the values are as stored
C30_Witness ==
    /\ lastOp.op = "update"
    /\ lastOp.ok
    /\ lastOp.data.is_favorite
    /\ LET r == RowOf(lastOp.id)
       IN  /\ r.house = Dior
           /\ r.winter_rating = 730
           /\ r.summer_rating = 312
           /\ r.longevity = 9
           /\ r.sillage = 0 - 2
           /\ r.size_ml = 503
           /\ r.is_favorite = 1
           /\ r.created_at = 0
           /\ r.updated_at = 1

====
